---- MODULE Spec2Model ----
(***************************************************************************)
(* A state-machine model of src/index.tsx: the Veo video generation page.  *)
(* One generate() call is a frame (its locals and the await it is parked   *)
(* on); the page state is the DOM fields the handlers write; the remote    *)
(* service, the timers, the file readers and the host key dialog are the   *)
(* environment, which settles the promise a frame awaits.                  *)
(***************************************************************************)
EXTENDS Integers, Sequences, FiniteSets, TLC

\* ------------------------------------------------------------------ bounds
\* generate() calls that may be pending at the same time
MaxCalls == 2
\* longest generatedVideos list the service returns
MaxVideos == 2
\* file reads (blobToBase64) that may be pending at the same time
MaxReads == 1

\* ----------------------------------------------------------------- strings
UpperCaseLetters == "ABCDEFGHIJKLMNOPQRSTUVWXYZ"
LowerCaseLetters == "abcdefghijklmnopqrstuvwxyz"

\* String.prototype.toLowerCase on one character
LowerCaseMap ==
  [c \in {SubSeq(UpperCaseLetters, j, j) : j \in 1..26} |->
     LET j == CHOOSE k \in 1..26 : SubSeq(UpperCaseLetters, k, k) = c
     IN  SubSeq(LowerCaseLetters, j, j)]

LowerOf(c) == IF c \in DOMAIN LowerCaseMap THEN LowerCaseMap[c] ELSE c

\* the characters of s from index i on, in lower case
RECURSIVE LowerFrom(_, _)
LowerFrom(s, i) ==
  IF i > Len(s) THEN ""
  ELSE LowerOf(SubSeq(s, i, i)) \o LowerFrom(s, i + 1)

\* String.prototype.toLowerCase
toLowerCase(s) == LowerFrom(s, 1)

\* String.prototype.includes: p occurs in s as a substring
includes(s, p) ==
  \E i \in 1..(Len(s) - Len(p) + 1) : SubSeq(s, i, i + Len(p) - 1) = p

WhiteSpace == {" ", "\t", "\n"}

RECURSIVE trimStart(_)
trimStart(s) ==
  IF s # "" /\ SubSeq(s, 1, 1) \in WhiteSpace
  THEN trimStart(SubSeq(s, 2, Len(s)))
  ELSE s

RECURSIVE trimEnd(_)
trimEnd(s) ==
  IF s # "" /\ SubSeq(s, Len(s), Len(s)) \in WhiteSpace
  THEN trimEnd(SubSeq(s, 1, Len(s) - 1))
  ELSE s

\* trim that trims nothing
trim_identity(s) == s

\* String.prototype.trim
trim(s) == trimEnd(trimStart(s))

\* JavaScript truthiness of a string: the empty string is falsy
Truthy(s) == s # ""

\* index of the first "," of s, 0 when there is none
FirstComma(s) ==
  IF \E i \in 1..Len(s) : SubSeq(s, i, i) = ","
  THEN CHOOSE i \in 1..Len(s) :
         /\ SubSeq(s, i, i) = ","
         /\ \A j \in 1..(i - 1) : SubSeq(s, j, j) # ","
  ELSE 0

\* url.split(',')[1] for a url that holds a comma: the text between the first
\* comma and the second one (or the end)
SplitSecond(url) ==
  LET rest == SubSeq(url, FirstComma(url) + 1, Len(url))
      c2   == FirstComma(rest)
  IN  IF c2 = 0 THEN rest ELSE SubSeq(rest, 1, c2 - 1)

\* ------------------------------------------------------------ thrown values
\* A thrown value: an Error with a message, or a value that is no Error.
Error(m) == [isError |-> TRUE, message |-> m]
NonError(m) == [isError |-> FALSE, message |-> m]

\* ------------------------------------------------------- error classification
CredentialMessage ==
  "Your API key appears to be invalid or lacks permissions. Please verify your key and try again."
SafetyMessage ==
  "The video could not be generated, likely because the prompt was blocked for safety reasons. Please try a different prompt."
QuotaMessage ==
  "You have exceeded your request limit for the API. Please wait a while and try again."
TimeoutMessage ==
  "Video generation timed out. Please try again, perhaps with a simpler prompt or shorter duration."
NetworkMessage ==
  "A network error occurred while downloading the video. Please check your internet connection and try again."
InternalMessage ==
  "The model encountered an internal error. Please try again in a few moments."
InvalidArgumentMessage ==
  "An invalid parameter was sent to the model. Please check the video settings and try again."
UnexpectedMessage ==
  "An unexpected error occurred during video generation."
FallbackMessage(m) == "An error occurred: " \o m

\* the patterns of the rules, in the order of the if/else-if chain
RulePatterns ==
  << {"api key not valid", "api_key_invalid", "permission denied",
      "requested entity was not found"},
     {"prompt may have been blocked", "no videos were generated"},
     {"quota", "rate limit"},
     {"video generation timed out"},
     {"failed to fetch"},
     {"internal error", "model error"},
     {"invalid argument"} >>

RuleMessages ==
  << CredentialMessage, SafetyMessage, QuotaMessage, TimeoutMessage,
     NetworkMessage, InternalMessage, InvalidArgumentMessage >>

\* rule r matches the lower-cased message
Matches(r, errorMessage) == \E p \in RulePatterns[r] : includes(errorMessage, p)

Classified(m, d) == [userFriendlyMessage |-> m, shouldOpenDialog |-> d]

\* Classify without the instanceof test of line 247
Classify_noInstanceTest(e) ==
  LET errorMessage == toLowerCase(e.message) IN
    IF      Matches(1, errorMessage) THEN Classified(CredentialMessage, TRUE)
    ELSE IF Matches(2, errorMessage) THEN Classified(SafetyMessage, FALSE)
    ELSE IF Matches(3, errorMessage) THEN Classified(QuotaMessage, FALSE)
    ELSE IF Matches(4, errorMessage) THEN Classified(TimeoutMessage, FALSE)
    ELSE IF Matches(5, errorMessage) THEN Classified(NetworkMessage, FALSE)
    ELSE IF Matches(6, errorMessage) THEN Classified(InternalMessage, FALSE)
    ELSE IF Matches(7, errorMessage) THEN Classified(InvalidArgumentMessage, FALSE)
    ELSE Classified(FallbackMessage(e.message), FALSE)

\* Classify with the invalid-argument rule tested before the quota rule
Classify_argumentFirst(e) ==
  IF ~e.isError THEN Classified(UnexpectedMessage, FALSE)
  ELSE LET errorMessage == toLowerCase(e.message) IN
    IF      Matches(1, errorMessage) THEN Classified(CredentialMessage, TRUE)
    ELSE IF Matches(2, errorMessage) THEN Classified(SafetyMessage, FALSE)
    ELSE IF Matches(7, errorMessage) THEN Classified(InvalidArgumentMessage, FALSE)
    ELSE IF Matches(3, errorMessage) THEN Classified(QuotaMessage, FALSE)
    ELSE IF Matches(4, errorMessage) THEN Classified(TimeoutMessage, FALSE)
    ELSE IF Matches(5, errorMessage) THEN Classified(NetworkMessage, FALSE)
    ELSE IF Matches(6, errorMessage) THEN Classified(InternalMessage, FALSE)
    ELSE Classified(FallbackMessage(e.message), FALSE)

\* Classify without the fetch-failure rule of line 270
Classify_noFetchRule(e) ==
  IF ~e.isError THEN Classified(UnexpectedMessage, FALSE)
  ELSE LET errorMessage == toLowerCase(e.message) IN
    IF      Matches(1, errorMessage) THEN Classified(CredentialMessage, TRUE)
    ELSE IF Matches(2, errorMessage) THEN Classified(SafetyMessage, FALSE)
    ELSE IF Matches(3, errorMessage) THEN Classified(QuotaMessage, FALSE)
    ELSE IF Matches(4, errorMessage) THEN Classified(TimeoutMessage, FALSE)
    ELSE IF Matches(6, errorMessage) THEN Classified(InternalMessage, FALSE)
    ELSE IF Matches(7, errorMessage) THEN Classified(InvalidArgumentMessage, FALSE)
    ELSE Classified(FallbackMessage(e.message), FALSE)

\* Classify without the default message of line 244: a value that is no
\* Error gets no message
Classify_noDefault(e) ==
  IF ~e.isError THEN Classified("", FALSE)
  ELSE LET errorMessage == toLowerCase(e.message) IN
    IF      Matches(1, errorMessage) THEN Classified(CredentialMessage, TRUE)
    ELSE IF Matches(2, errorMessage) THEN Classified(SafetyMessage, FALSE)
    ELSE IF Matches(3, errorMessage) THEN Classified(QuotaMessage, FALSE)
    ELSE IF Matches(4, errorMessage) THEN Classified(TimeoutMessage, FALSE)
    ELSE IF Matches(5, errorMessage) THEN Classified(NetworkMessage, FALSE)
    ELSE IF Matches(6, errorMessage) THEN Classified(InternalMessage, FALSE)
    ELSE IF Matches(7, errorMessage) THEN Classified(InvalidArgumentMessage, FALSE)
    ELSE Classified(FallbackMessage(e.message), FALSE)

\* the catch block of generate, lines 244-282: the message shown and whether
\* the key dialog is to be opened
Classify(e) ==
  IF ~e.isError THEN Classified(UnexpectedMessage, FALSE)
  ELSE LET errorMessage == toLowerCase(e.message) IN
    IF      Matches(1, errorMessage) THEN Classified(CredentialMessage, TRUE)
    ELSE IF Matches(2, errorMessage) THEN Classified(SafetyMessage, FALSE)
    ELSE IF Matches(3, errorMessage) THEN Classified(QuotaMessage, FALSE)
    ELSE IF Matches(4, errorMessage) THEN Classified(TimeoutMessage, FALSE)
    ELSE IF Matches(5, errorMessage) THEN Classified(NetworkMessage, FALSE)
    ELSE IF Matches(6, errorMessage) THEN Classified(InternalMessage, FALSE)
    ELSE IF Matches(7, errorMessage) THEN Classified(InvalidArgumentMessage, FALSE)
    ELSE Classified(FallbackMessage(e.message), FALSE)

\* showStatusError: the innerHTML it writes
showStatusError(message) ==
  "<span class=\"text-red-400\">" \o message \o "</span>"

\* ------------------------------------------------------------- environment
\* process.env.API_KEY: absent (the empty string) or a key
ApiKeys == {"", "KEY"}

\* what the user may type into the prompt field
Prompts == {"", " \t", "a cat"}

\* FileReader.readAsDataURL results of the files the user may choose
DataURLs == {"data:image/png;base64,iVBO"}

\* the asset URIs of a generatedVideos list of length n
Uri(k) == "https://v/" \o ToString(k) \o "?alt=media"
VideoList(n) == [k \in 1..n |-> [video |-> [uri |-> Uri(k)]]]

\* an Operation: done, and response?.generatedVideos (absent or a list)
Operation(d, h, vs) == [done |-> d, hasVideos |-> h, generatedVideos |-> vs]
NoOperation == Operation(FALSE, FALSE, <<>>)
Operations ==
  {NoOperation, Operation(TRUE, FALSE, <<>>)}
    \cup {Operation(TRUE, TRUE, VideoList(n)) : n \in 0..MaxVideos}

\* fragments error messages of the service are built from: one per rule of
\* the classification, in mixed case, and a text that matches no rule
Fragments ==
  {"API key not valid", "No videos were generated", "Quota exceeded",
   "Video generation timed out", "Failed to fetch", "Internal error",
   "INVALID ARGUMENT", "Service unavailable"}

\* values ai.models.generateVideos may reject with
SubmitRejections ==
  {Error(a) : a \in Fragments}
    \cup {Error(a \o ": " \o b) : a, b \in Fragments}
    \cup {Error(m) : m \in {"API_KEY_INVALID", "Permission denied",
                            "Requested entity was not found.",
                            "The prompt may have been blocked",
                            "rate limit reached", "Model error", ""}}
    \cup {NonError("api key not valid"), NonError("")}

\* values ai.operations.getVideosOperation may reject with
PollRejections == {Error("API key not valid"), NonError("quota")}

\* values fetch may reject with
FetchRejections == {Error("NetworkError when attempting to fetch resource.")}

\* statusText of a response that is not ok
StatusTexts ==
  {"", "Not Found", "Forbidden", "Permission Denied", "Quota Exceeded",
   "No videos were generated", "Video generation timed out",
   "Internal Error", "Invalid Argument"}

\* values res.blob() may reject with
BlobRejections == {Error("The user aborted a request.")}

\* values window.aistudio.openSelectKey may reject with
DialogRejections == {Error("Dialog closed")}

\* every value generateContent can throw: the rejections it lets through
\* and the Errors it makes itself (lines 109, 117, 124, 136)
Throwable ==
  SubmitRejections \cup FetchRejections \cup BlobRejections
    \cup {Error("Failed to get video generation status. Please try again."),
          Error("Video generation timed out. Please try again with a simpler prompt."),
          Error("No videos were generated. The prompt may have been blocked.")}
    \cup {Error("Failed to fetch video file: " \o t) : t \in StatusTexts}

\* Classify on every throwable value, computed once
Classification == [e \in Throwable |-> Classify(e)]

\* the settled value of an awaited promise
Pending == [kind |-> "pending"]
Fulfilled == [kind |-> "fulfilled"]
FulfilledOperation(op) == [kind |-> "operation", operation |-> op]
FulfilledResponse(ok, st) == [kind |-> "response", ok |-> ok, statusText |-> st]
Rejected(e) == [kind |-> "rejected", e |-> e]

\* --------------------------------------------------------------- the state
Controls ==
  {"generateButton", "upload", "promptEl", "aspectRatioSelect",
   "durationSlider", "resolutionSelect"}

maxPolls == 20

VARIABLES
  prompt,                 \* let prompt
  base64data,             \* let base64data
  reads,                  \* data URLs of the file reads not yet loaded, in start order
  selectedFile,           \* upload.files[0] as a data URL, "" when no file is selected
  apiKey,                 \* process.env.API_KEY
  aistudio,               \* window.aistudio?.openSelectKey is available
  unhandledRejection,     \* a promise of generate() rejected, nobody handles it
  status,                 \* statusEl content
  disabled,               \* the disabled flag of each control
  videoContainerDisplay,  \* videoContainer.style.display
  videoSrc,               \* video.src
  downloadHref,           \* downloadButton.href
  frame,                  \* the generate() calls: locals and the await parked on
  reply,                  \* the settled value of the promise each call awaits
  polls                   \* getVideosOperation calls made in the poll loop of each call

page == <<prompt, base64data, reads, selectedFile>>
host == <<apiKey, aistudio, unhandledRejection>>
slot == <<videoContainerDisplay, videoSrc, downloadHref>>
vars == <<prompt, base64data, reads, selectedFile, apiKey, aistudio,
          unhandledRejection, status, disabled,
          videoContainerDisplay, videoSrc, downloadHref, frame, reply, polls>>

Frames == 1..MaxCalls

NoParams == [none |-> TRUE]

\* a call that has not started or has returned holds no locals
IdleFrame ==
  [pc |-> "idle", prompt |-> "", imageBytes |-> "",
   params |-> NoParams, operation |-> NoOperation, pollCount |-> 0, v |-> 0]

Init ==
  /\ prompt = ""
  /\ base64data = ""
  /\ reads = <<>>
  /\ selectedFile = ""
  /\ apiKey \in ApiKeys
  /\ aistudio \in BOOLEAN
  /\ unhandledRejection = FALSE
  /\ status = ""
  /\ disabled = [c \in Controls |-> FALSE]
  /\ videoContainerDisplay = "none"
  /\ videoSrc = ""
  /\ downloadHref = ""
  /\ frame = [i \in Frames |-> IdleFrame]
  /\ reply = [i \in Frames |-> Pending]
  /\ polls = [i \in Frames |-> 0]

Free(i) == frame[i].pc = "idle"

\* the event loop runs a handler or a continuation only when no rejection
\* of the turn before is still to be reported
NoReportDue == ~unhandledRejection

\* ------------------------------------------------------------ page handlers
\* promptEl 'input' listener, lines 190-192
PromptInput(value) ==
  /\ NoReportDue
  /\ ~disabled["promptEl"]
  /\ prompt' = value
  /\ UNCHANGED <<base64data, reads, selectedFile, host, status, disabled, slot,
               frame, reply, polls>>

\* upload 'change' listener up to its await, lines 176-188: with a file the
\* read starts, without one the stored bytes are cleared
UploadChange(file) ==
  /\ NoReportDue
  /\ ~disabled["upload"]
  /\ selectedFile' = file
  /\ IF file # ""
     THEN /\ Len(reads) < MaxReads
          /\ reads' = Append(reads, file)
          /\ UNCHANGED base64data
     ELSE /\ base64data' = ""
          /\ UNCHANGED reads
  /\ UNCHANGED <<prompt, host, status, disabled, slot, frame, reply, polls>>

\* blobToBase64 resolves (reader.onload, lines 59-63) and the listener
\* resumes at line 180
ReaderLoad(k) ==
  /\ NoReportDue
  /\ k \in 1..Len(reads)
  /\ base64data' = SplitSecond(reads[k])
  /\ reads' = SubSeq(reads, 1, k - 1) \o SubSeq(reads, k + 1, Len(reads))
  /\ UNCHANGED <<prompt, selectedFile, host, status, disabled, slot, frame, reply, polls>>

\* setControlsDisabled that leaves the generate button alone
setControlsDisabled_notTheButton(d) ==
  [c \in Controls |-> IF c = "generateButton" THEN FALSE ELSE d]

\* setControlsDisabled that forgets the resolution select
setControlsDisabled_fiveControls(d) ==
  [c \in Controls |-> IF c = "resolutionSelect" THEN FALSE ELSE d]

\* setControlsDisabled, lines 211-218
setControlsDisabled(d) == [c \in Controls |-> d]

\* ------------------------------------------------- generate: shared tails
\* Each tail below runs a call from where it stands to its next await or to
\* its return; it sets frame, reply, polls, status and disabled. `fr` is the
\* frame's locals so far and `st` the status text written so far in the step.

\* the call returns: its frame is dropped
Return(i) ==
  /\ frame' = [frame EXCEPT ![i] = IdleFrame]
  /\ reply' = [reply EXCEPT ![i] = Pending]
  /\ polls' = [polls EXCEPT ![i] = 0]

\* the call parks on the promise of the remote or host call it just made
Park(i, fr, await) ==
  /\ frame' = [frame EXCEPT ![i] = [fr EXCEPT !.pc = await]]
  /\ reply' = [reply EXCEPT ![i] = Pending]

\* openApiKeyDialog, lines 41-50, called by frame i, which parks on `await`
\* when the host dialog opens; without the host capability the call writes
\* its message and returns at once, and so does the caller: `enable` says
\* that the caller's finally block re-enables the controls.
openApiKeyDialog(i, fr, st, await, enable) ==
  IF aistudio
  THEN /\ Park(i, fr, await)
       /\ polls' = [polls EXCEPT ![i] = 0]
       /\ status' = st
       /\ UNCHANGED disabled
  ELSE /\ Return(i)
       /\ status' = showStatusError(
            "API key selection is not available. Please configure the API_KEY environment variable.")
       /\ disabled' = IF enable THEN setControlsDisabled(FALSE) ELSE disabled

\* Catch without the finally block on the path that opens no dialog
Catch_noFinally(i, fr, e) ==
  LET c == Classification[e]
  IN  IF c.shouldOpenDialog
      THEN openApiKeyDialog(i, fr, showStatusError(c.userFriendlyMessage),
                            "errorDialog", TRUE)
      ELSE /\ status' = showStatusError(c.userFriendlyMessage)
           /\ UNCHANGED disabled
           /\ Return(i)

\* generateContent threw e: the catch and finally blocks of generate,
\* lines 242-291
Catch(i, fr, e) ==
  LET c == Classification[e]
  IN  IF c.shouldOpenDialog
      THEN openApiKeyDialog(i, fr, showStatusError(c.userFriendlyMessage),
                            "errorDialog", TRUE)
      ELSE /\ status' = showStatusError(c.userFriendlyMessage)
           /\ disabled' = setControlsDisabled(FALSE)
           /\ Return(i)

\* generateContent returned: line 241 and the finally block
Success(i) ==
  /\ status' = "Video generated successfully."
  /\ disabled' = setControlsDisabled(FALSE)
  /\ Return(i)

\* the asset fetch of loop variable v, line 134
Fetch(i, fr, st) ==
  /\ status' = st
  /\ Park(i, fr, "fetch")
  /\ polls' = [polls EXCEPT ![i] = 0]
  /\ UNCHANGED disabled

\* AfterLoop that takes an exhausted poll count for the timeout
AfterLoop_byCount(i, fr) ==
  IF fr.pollCount >= maxPolls
  THEN Catch(i, fr, Error(
         "Video generation timed out. Please try again with a simpler prompt."))
  ELSE IF ~fr.operation.hasVideos \/ Len(fr.operation.generatedVideos) = 0
  THEN Catch(i, fr, Error(
         "No videos were generated. The prompt may have been blocked."))
  ELSE Fetch(i, [fr EXCEPT !.v = 1, !.pollCount = 0], "Downloading video...")

\* AfterLoop that tests the result list for absence only: the for loop
\* runs over an empty list and generateContent returns
AfterLoop_noLengthTest(i, fr) ==
  IF ~fr.operation.done
  THEN Catch(i, fr, Error(
         "Video generation timed out. Please try again with a simpler prompt."))
  ELSE IF ~fr.operation.hasVideos
  THEN Catch(i, fr, Error(
         "No videos were generated. The prompt may have been blocked."))
  ELSE IF Len(fr.operation.generatedVideos) = 0
  THEN Success(i)
  ELSE Fetch(i, [fr EXCEPT !.v = 1, !.pollCount = 0], "Downloading video...")

\* after the poll loop, lines 116-134: timeout, empty result, or the first
\* asset fetch; pollCount is not read after line 102 and is dropped here
AfterLoop(i, fr) ==
  IF ~fr.operation.done
  THEN Catch(i, fr, Error(
         "Video generation timed out. Please try again with a simpler prompt."))
  ELSE IF ~fr.operation.hasVideos \/ Len(fr.operation.generatedVideos) = 0
  THEN Catch(i, fr, Error(
         "No videos were generated. The prompt may have been blocked."))
  ELSE Fetch(i, [fr EXCEPT !.v = 1, !.pollCount = 0], "Downloading video...")

\* the loop condition with the bound off by one
LoopContinues_offByOne(operation, pollCount) ==
  ~operation.done /\ pollCount + 1 < maxPolls

\* the loop condition of line 102
LoopContinues(operation, pollCount) == ~operation.done /\ pollCount < maxPolls

\* the head of the poll loop, lines 102-105: another round parks on the
\* delay, otherwise the code after the loop runs
Loop(i, fr, st) ==
  IF LoopContinues(fr.operation, fr.pollCount)
  THEN /\ Park(i, [fr EXCEPT !.pollCount = @ + 1], "delay")
       /\ status' = st
       /\ UNCHANGED <<polls, disabled>>
  ELSE AfterLoop(i, fr)

\* the request with the image attached whatever the bytes
BuildParams_alwaysImage(p, imageBytes) ==
  [model |-> "veo-2.0-generate-001", prompt |-> p,
   config |-> [numberOfVideos |-> 1],
   image |-> [imageBytes |-> imageBytes, mimeType |-> "image/png"]]

\* the request built at lines 78-94
BuildParams(p, imageBytes) ==
  LET params ==
        [model |-> "veo-2.0-generate-001", prompt |-> p,
         config |-> [numberOfVideos |-> 1]]
  IN  IF Truthy(imageBytes)
      THEN params @@ [image |-> [imageBytes |-> imageBytes,
                                 mimeType |-> "image/png"]]
      ELSE params

\* ---------------------------------------------------------------- generate
\* generate without the key test of lines 222-227
generate_noKeyTest(i) ==
  /\ status' = "Initializing video generation..."
  /\ videoContainerDisplay' = "none"
  /\ disabled' = setControlsDisabled(TRUE)
  /\ Park(i, [IdleFrame EXCEPT !.prompt = prompt,
                               !.imageBytes = base64data,
                               !.params = BuildParams(prompt, base64data)],
          "generateVideos")
  /\ polls' = [polls EXCEPT ![i] = 0]
  /\ UNCHANGED <<page, host, videoSrc, downloadHref>>

\* generate up to its first await, lines 220-240 and 76-96, run in frame i
generate(i) ==
  IF ~Truthy(apiKey)
  THEN /\ openApiKeyDialog(i, IdleFrame,
            showStatusError("API key is not configured. Please add your API key."),
            "keyDialog", FALSE)
       /\ UNCHANGED <<page, host, slot>>
  ELSE /\ status' = "Initializing video generation..."
       /\ videoContainerDisplay' = "none"
       /\ disabled' = setControlsDisabled(TRUE)
       /\ Park(i, [IdleFrame EXCEPT !.prompt = prompt,
                                    !.imageBytes = base64data,
                                    !.params = BuildParams(prompt, base64data)],
               "generateVideos")
       /\ polls' = [polls EXCEPT ![i] = 0]
       /\ UNCHANGED <<page, host, videoSrc, downloadHref>>

\* generateButton 'click' listener, lines 198-204; a disabled button
\* dispatches no click
Click ==
  /\ NoReportDue
  /\ ~disabled["generateButton"]
  /\ IF ~Truthy(trim(prompt))
     THEN /\ status' = showStatusError("Please enter a prompt to generate a video.")
          /\ UNCHANGED <<page, host, disabled, slot, frame, reply, polls>>
     ELSE \E i \in Frames :
            /\ Free(i)
            /\ \A j \in 1..(i - 1) : ~Free(j)
            /\ generate(i)

\* ----------------------------------------------- the environment settles
Awaiting(i, pcs) == frame[i].pc \in pcs /\ reply[i] = Pending

Settle(i, r) ==
  /\ reply' = [reply EXCEPT ![i] = r]
  /\ UNCHANGED <<page, aistudio, unhandledRejection, status, disabled, slot, frame, polls>>

\* ai.models.generateVideos settles
GenerateVideosSettles(i) ==
  /\ NoReportDue
  /\ Awaiting(i, {"generateVideos"})
  /\ \E r \in {FulfilledOperation(op) : op \in Operations}
                \cup {Rejected(e) : e \in SubmitRejections} : Settle(i, r)
  /\ UNCHANGED apiKey

\* ai.operations.getVideosOperation settles
GetVideosOperationSettles(i) ==
  /\ NoReportDue
  /\ Awaiting(i, {"getVideosOperation"})
  /\ \E r \in {FulfilledOperation(op) : op \in Operations}
                \cup {Rejected(e) : e \in PollRejections} : Settle(i, r)
  /\ UNCHANGED apiKey

\* fetch settles
FetchSettles(i) ==
  /\ NoReportDue
  /\ Awaiting(i, {"fetch"})
  /\ \E r \in {FulfilledResponse(TRUE, "OK")}
                \cup {FulfilledResponse(FALSE, t) : t \in StatusTexts}
                \cup {Rejected(e) : e \in FetchRejections} : Settle(i, r)
  /\ UNCHANGED apiKey

\* res.blob() settles
BlobSettles(i) ==
  /\ NoReportDue
  /\ Awaiting(i, {"blob"})
  /\ \E r \in {Fulfilled} \cup {Rejected(e) : e \in BlobRejections} : Settle(i, r)
  /\ UNCHANGED apiKey

\* the outcomes of window.aistudio.openSelectKey
DialogOutcomes == {Fulfilled} \cup {Rejected(e) : e \in DialogRejections}

\* a key the user selected in the dialog becomes the environment's key
KeyAfter(r) == IF r = Fulfilled THEN {apiKey, "KEY"} ELSE {apiKey}

\* window.aistudio.openSelectKey, called at line 287, settles
OpenSelectKeySettles(i) ==
  /\ NoReportDue
  /\ Awaiting(i, {"errorDialog"})
  /\ \E r \in DialogOutcomes : Settle(i, r) /\ apiKey' \in KeyAfter(r)

\* ------------------------------------------------- generate: continuations
Settled(i, pc) == frame[i].pc = pc /\ reply[i] # Pending

\* line 96 resuming with a rejected submission sent again
AfterGenerateVideos_retry(i) ==
  /\ NoReportDue
  /\ Settled(i, "generateVideos")
  /\ IF reply[i].kind = "rejected"
     THEN /\ Park(i, frame[i], "generateVideos")
          /\ UNCHANGED <<status, disabled, polls>>
     ELSE Loop(i, [frame[i] EXCEPT !.operation = reply[i].operation],
               "Generating...")
  /\ UNCHANGED <<page, host, slot>>

\* line 96 resumes: the operation enters the poll loop, a rejection is caught
AfterGenerateVideos(i) ==
  /\ NoReportDue
  /\ Settled(i, "generateVideos")
  /\ IF reply[i].kind = "rejected"
     THEN Catch(i, frame[i], reply[i].e)
     ELSE Loop(i, [frame[i] EXCEPT !.operation = reply[i].operation],
               "Generating...")
  /\ UNCHANGED <<page, host, slot>>

\* the delay of line 105 elapses and line 107 polls
DelayElapsed(i) ==
  /\ NoReportDue
  /\ frame[i].pc = "delay"
  /\ Park(i, frame[i], "getVideosOperation")
  /\ polls' = [polls EXCEPT ![i] = @ + 1]
  /\ UNCHANGED <<page, host, status, disabled, slot>>

\* line 107 resuming with a rejected poll swallowed: the loop goes on with
\* the operation it had
AfterGetVideosOperation_retry(i) ==
  /\ NoReportDue
  /\ Settled(i, "getVideosOperation")
  /\ IF reply[i].kind = "rejected"
     THEN Loop(i, frame[i], status)
     ELSE Loop(i, [frame[i] EXCEPT !.operation = reply[i].operation], status)
  /\ UNCHANGED <<page, host, slot>>

\* line 107 resumes: a rejection is wrapped (lines 108-113), an operation
\* goes back to the loop head
AfterGetVideosOperation(i) ==
  /\ NoReportDue
  /\ Settled(i, "getVideosOperation")
  /\ IF reply[i].kind = "rejected"
     THEN Catch(i, frame[i], Error(
            "Failed to get video generation status. Please try again."))
     ELSE Loop(i, [frame[i] EXCEPT !.operation = reply[i].operation], status)
  /\ UNCHANGED <<page, host, slot>>

\* line 134 resumes: lines 135-138
AfterFetch(i) ==
  /\ NoReportDue
  /\ Settled(i, "fetch")
  /\ IF reply[i].kind = "rejected"
     THEN Catch(i, frame[i], reply[i].e)
     ELSE IF ~reply[i].ok
     THEN Catch(i, frame[i], Error(
            "Failed to fetch video file: " \o reply[i].statusText))
     ELSE /\ Park(i, frame[i], "blob")
          /\ UNCHANGED <<status, disabled, polls>>
  /\ UNCHANGED <<page, host, slot>>

\* URL.createObjectURL of the blob fetched from uri
ObjectURL(uri) == "blob:" \o uri

\* line 138 resumes: lines 139-144 install the asset, then the next result
\* is fetched or generateContent returns
AfterBlob(i) ==
  /\ NoReportDue
  /\ Settled(i, "blob")
  /\ IF reply[i].kind = "rejected"
     THEN /\ Catch(i, frame[i], reply[i].e)
          /\ UNCHANGED slot
     ELSE LET videos    == frame[i].operation.generatedVideos
              objectURL == ObjectURL(videos[frame[i].v].video.uri)
          IN  /\ videoSrc' = objectURL
              /\ downloadHref' = objectURL
              /\ videoContainerDisplay' = "block"
              /\ IF frame[i].v < Len(videos)
                 THEN Fetch(i, [frame[i] EXCEPT !.v = @ + 1], status)
                 ELSE Success(i)
  /\ UNCHANGED <<page, host>>

\* window.aistudio.openSelectKey, called at line 225, settles, the await
\* resumes in the same turn of the event loop and generate returns (line 226)
\* or, the await throwing, rejects; neither writes any state of the page.
\* The click listener (line 203) neither awaits nor catches the promise of
\* generate, so its rejection is unhandled.
AfterKeyDialog(i) ==
  /\ NoReportDue
  /\ frame[i].pc = "keyDialog"
  /\ \E r \in DialogOutcomes :
       /\ apiKey' \in KeyAfter(r)
       /\ unhandledRejection' = (r.kind = "rejected")
  /\ Return(i)
  /\ UNCHANGED <<page, aistudio, status, disabled, slot>>

\* the await of line 287 resumes: the finally block runs and generate
\* returns or, the await throwing inside the catch block, rejects
AfterErrorDialog(i) ==
  /\ NoReportDue
  /\ Settled(i, "errorDialog")
  /\ disabled' = setControlsDisabled(FALSE)
  /\ unhandledRejection' = (reply[i].kind = "rejected")
  /\ Return(i)
  /\ UNCHANGED <<page, apiKey, aistudio, status, slot>>

\* the window reports the unhandled rejection at the end of the turn of
\* the event loop in which generate rejected, before any other event
UnhandledRejectionReported ==
  /\ unhandledRejection
  /\ unhandledRejection' = FALSE
  /\ UNCHANGED <<page, apiKey, aistudio, status, disabled, slot, frame, reply, polls>>

\* ------------------------------------------------------------ specification
Next ==
  \/ \E value \in Prompts : PromptInput(value)
  \/ \E file \in DataURLs \cup {""} : UploadChange(file)
  \/ \E k \in 1..MaxReads : ReaderLoad(k)
  \/ Click
  \/ \E i \in Frames : GenerateVideosSettles(i)
  \/ \E i \in Frames : AfterGenerateVideos(i)
  \/ \E i \in Frames : DelayElapsed(i)
  \/ \E i \in Frames : GetVideosOperationSettles(i)
  \/ \E i \in Frames : AfterGetVideosOperation(i)
  \/ \E i \in Frames : FetchSettles(i)
  \/ \E i \in Frames : AfterFetch(i)
  \/ \E i \in Frames : BlobSettles(i)
  \/ \E i \in Frames : AfterBlob(i)
  \/ \E i \in Frames : OpenSelectKeySettles(i)
  \/ \E i \in Frames : AfterKeyDialog(i)
  \/ \E i \in Frames : AfterErrorDialog(i)
  \/ UnhandledRejectionReported

Spec == Init /\ [][Next]_vars

\* what the event loop and the environment do for call i once its attempt
\* is parked: the promise it awaits settles (a remote call, the poll wait or
\* the key dialog of the catch block returns) and the continuation runs
Progress(i) ==
  \/ GenerateVideosSettles(i) \/ AfterGenerateVideos(i)
  \/ DelayElapsed(i)
  \/ GetVideosOperationSettles(i) \/ AfterGetVideosOperation(i)
  \/ FetchSettles(i) \/ AfterFetch(i)
  \/ BlobSettles(i) \/ AfterBlob(i)
  \/ OpenSelectKeySettles(i) \/ AfterErrorDialog(i)

\* the page under the assumption that every call the attempt in flight
\* awaits returns and that every continuation and report the event loop has
\* queued is run (at most one attempt is in flight, so one condition covers
\* the calls)
FairSpec ==
  /\ Spec
  /\ WF_vars(\E i \in Frames : Progress(i))
  /\ WF_vars(UnhandledRejectionReported)

\* ------------------------------------------------------------- properties
\* where a call stands inside generateContent, and inside an attempt (which
\* also covers the key dialog opened by the catch block)
GenerateContentPcs == {"generateVideos", "delay", "getVideosOperation", "fetch", "blob"}
AttemptPcs == GenerateContentPcs \cup {"errorDialog"}

\* the step resumes call i with the settled value of its await
Resumed(i) == reply[i] # Pending /\ reply'[i] = Pending

\* the attempt of call i ends in this step
AttemptEnds(i) == frame[i].pc \in AttemptPcs /\ frame'[i].pc = "idle"

\* the settled value of call i is an operation that is (not) done
DoneArrives(i) ==
  /\ frame[i].pc \in {"generateVideos", "getVideosOperation"}
  /\ reply[i].kind = "operation" /\ reply[i].operation.done
NotDoneArrives(i) ==
  /\ frame[i].pc \in {"generateVideos", "getVideosOperation"}
  /\ reply[i].kind = "operation" /\ ~reply[i].operation.done

IsErrorStatus(s) ==
  /\ Len(s) >= 34
  /\ SubSeq(s, 1, 27) = "<span class=\"text-red-400\">"
  /\ SubSeq(s, Len(s) - 6, Len(s)) = "</span>"

NotAvailableStatus ==
  showStatusError(
    "API key selection is not available. Please configure the API_KEY environment variable.")

\* C1: when done first becomes true at the submission or at poll k, 1 <= k
\* <= 20, exactly k polls have been made (and pollCount is k), the loop
\* makes no further poll, no timeout error is raised, and the results of
\* that operation are inspected: its first asset is fetched, or an absent
\* or empty result list ends the attempt with the no-videos error.
C1_DoneStopsLoop ==
  [][\A i \in Frames :
       (DoneArrives(i) /\ Resumed(i)) =>
         LET op == reply[i].operation IN
         /\ polls[i] = frame[i].pollCount
         /\ polls[i] <= 20
         /\ (frame[i].pc = "generateVideos" <=> polls[i] = 0)
         /\ frame'[i].pc \notin {"delay", "getVideosOperation"}
         /\ status' # showStatusError(TimeoutMessage)
         /\ IF op.hasVideos /\ Len(op.generatedVideos) > 0
            THEN /\ frame'[i].pc = "fetch"
                 /\ frame'[i].operation = op
                 /\ frame'[i].v = 1
                 /\ status' = "Downloading video..."
            ELSE /\ frame'[i].pc = "idle"
                 /\ status' = showStatusError(SafetyMessage)]_vars

\* done arrives with the 20th poll
C1_Witness ==
  \E i \in Frames :
    /\ frame[i].pc = "getVideosOperation" /\ polls[i] = 20
    /\ reply[i].kind = "operation" /\ reply[i].operation.done
    /\ Len(reply[i].operation.generatedVideos) > 0

\* C2: while the operation is not done and no poll fails, every not-done
\* operation before the 20th poll leads to the next poll wait; the not-done
\* operation of the 20th poll ends the attempt with no asset fetch, no key
\* dialog and an error message that contains "timed out"; there is no 21st
\* poll.
C2_TimeoutAfterTwentyPolls ==
  [][\A i \in Frames :
       /\ polls'[i] <= 20
       /\ (NotDoneArrives(i) /\ Resumed(i)) =>
            IF polls[i] < 20
            THEN /\ frame'[i].pc = "delay"
                 /\ frame'[i].pollCount = polls[i] + 1
            ELSE /\ frame'[i].pc = "idle"
                 /\ IsErrorStatus(status')
                 /\ includes(status', "timed out")
                 /\ status' = showStatusError(TimeoutMessage)]_vars

\* the 20th poll returned an operation that is not done
C2_Witness ==
  \E i \in Frames :
    /\ frame[i].pc = "getVideosOperation" /\ polls[i] = 20
    /\ reply[i].kind = "operation" /\ ~reply[i].operation.done

\* C3: at most one attempt is in flight: no two generate calls stand between
\* the submission and the end of the attempt at the same time.
C3_OneAttemptInFlight ==
  Cardinality({i \in Frames : frame[i].pc \in AttemptPcs}) <= 1

\* an attempt is parked on the poll wait while another generate call, made
\* before a key was present, still waits for its key dialog
C3_Witness ==
  \E i, j \in Frames :
    /\ frame[i].pc = "delay"
    /\ frame[j].pc = "keyDialog"
    /\ disabled["generateButton"]

\* C4: a rejected poll ends the attempt in the same step: no further poll,
\* no asset fetch, no key dialog, and the message shown is the wrapped
\* status-fetch error whatever the poll rejected with.
C4_PollFailureIsFatal ==
  [][\A i \in Frames :
       (frame[i].pc = "getVideosOperation" /\ reply[i].kind = "rejected"
          /\ Resumed(i)) =>
         /\ frame'[i].pc = "idle"
         /\ status' = showStatusError(FallbackMessage(
              "Failed to get video generation status. Please try again."))
         /\ (reply[i].e.message # "" => ~includes(status', reply[i].e.message))]_vars

\* a poll before the last one was rejected with a credential error
C4_Witness ==
  \E i \in Frames :
    /\ frame[i].pc = "getVideosOperation" /\ polls[i] = 3
    /\ reply[i] = Rejected(Error("API key not valid"))

\* C5: the submission is called only where generate starts an attempt, once;
\* a rejected submission ends generateContent in the same step with no poll
\* and no asset fetch, and the status shows the classified error (or, for a
\* credential error without the host dialog, the message of the dialog).
C5_SubmitOnceNoRetry ==
  [][\A i \in Frames :
       /\ (frame'[i].pc = "generateVideos" /\ reply'[i] = Pending) =>
            (frame[i].pc = "idle" \/ (frame[i].pc = "generateVideos" /\ reply[i] = Pending))
       /\ (frame[i].pc = "generateVideos" /\ reply[i].kind = "rejected"
             /\ Resumed(i)) =>
            LET c == Classify(reply[i].e) IN
            IF c.shouldOpenDialog /\ aistudio
            THEN /\ frame'[i].pc = "errorDialog"
                 /\ status' = showStatusError(c.userFriendlyMessage)
            ELSE /\ frame'[i].pc = "idle"
                 /\ status' = IF c.shouldOpenDialog THEN NotAvailableStatus
                              ELSE showStatusError(c.userFriendlyMessage)]_vars

\* the submission was rejected
C5_Witness ==
  \E i \in Frames :
    /\ frame[i].pc = "generateVideos"
    /\ reply[i] = Rejected(Error("Service unavailable"))

\* C6: the request of every call inside generateContent was built from a
\* prompt that is not empty, has numberOfVideos 1, and has an image field
\* exactly when the image bytes passed in are not empty; the image field
\* carries those bytes.
C6_RequestShape ==
  \A i \in Frames :
    frame[i].pc \in GenerateContentPcs =>
      LET params == frame[i].params IN
      /\ params.prompt = frame[i].prompt /\ params.prompt # ""
      /\ params.config.numberOfVideos = 1
      /\ ("image" \in DOMAIN params) <=> (frame[i].imageBytes # "")
      /\ ("image" \in DOMAIN params) => params.image.imageBytes = frame[i].imageBytes

\* one request was submitted with image bytes
C6_Witness ==
  \E i \in Frames :
    /\ frame[i].pc = "generateVideos"
    /\ frame[i].imageBytes = "iVBO"
    /\ "image" \in DOMAIN frame[i].params

\* the lowest-numbered rule whose pattern occurs in the message, 0 for none
FirstRule(m) ==
  LET matching == {r \in 1..7 : Matches(r, toLowerCase(m))}
  IN  IF matching = {} THEN 0
      ELSE CHOOSE r \in matching : \A q \in matching : r <= q

\* C7: for every Error the submission rejects with, the message shown is
\* that of the lowest-numbered rule with a matching pattern (the raw
\* message for none), and the key dialog is asked for exactly under rule 1.
C7_FirstMatchWins ==
  [][\A i \in Frames :
       (frame[i].pc = "generateVideos" /\ reply[i].kind = "rejected"
          /\ reply[i].e.isError /\ Resumed(i)) =>
         LET m == reply[i].e.message
             r == FirstRule(m)
             shown == IF r = 0 THEN FallbackMessage(m) ELSE RuleMessages[r]
         IN  IF r = 1
             THEN IF aistudio
                  THEN frame'[i].pc = "errorDialog" /\ status' = showStatusError(shown)
                  ELSE frame'[i].pc = "idle" /\ status' = NotAvailableStatus
             ELSE frame'[i].pc = "idle" /\ status' = showStatusError(shown)]_vars

\* a rejection whose message matches the invalid-argument and the quota
\* patterns, in that order
C7_Witness ==
  \E i \in Frames :
    /\ frame[i].pc = "generateVideos"
    /\ reply[i] = Rejected(Error("INVALID ARGUMENT: Quota exceeded"))
    /\ Matches(3, toLowerCase(reply[i].e.message))
    /\ Matches(7, toLowerCase(reply[i].e.message))

\* the message has a credential pattern
CredentialText(m) == Matches(1, toLowerCase(m))

\* the settled value of call i makes generateContent throw an Error whose
\* message has a credential pattern
CredentialFailure(i) ==
  \/ /\ frame[i].pc \in {"generateVideos", "fetch", "blob"}
     /\ reply[i].kind = "rejected"
     /\ reply[i].e.isError
     /\ CredentialText(reply[i].e.message)
  \/ /\ frame[i].pc = "fetch"
     /\ reply[i].kind = "response" /\ ~reply[i].ok
     /\ CredentialText("Failed to fetch video file: " \o reply[i].statusText)

\* the step calls openApiKeyDialog from the catch block of call i: the call
\* parks on the host dialog, or without the host capability the message of
\* openApiKeyDialog is shown
DialogRequested(i) ==
  /\ frame[i].pc \in GenerateContentPcs
  /\ \/ frame'[i].pc = "errorDialog"
     \/ ~aistudio /\ frame'[i].pc = "idle" /\ status' = NotAvailableStatus

\* C8: the catch block asks for the key dialog exactly when generateContent
\* threw an Error whose message has a credential pattern; a timeout, an
\* empty result, a wrapped poll failure, any other message and a value that
\* is no Error ask for none.
C8_DialogIffCredential ==
  [][\A i \in Frames :
       DialogRequested(i) <=> (Resumed(i) /\ CredentialFailure(i))]_vars

\* the key dialog is open after a credential error
C8_Witness ==
  \E i \in Frames : frame[i].pc = "errorDialog" /\ reply[i] = Pending

\* a response that is not ok resumes call i
NotOkResumes(i) ==
  /\ frame[i].pc = "fetch" /\ reply[i].kind = "response" /\ ~reply[i].ok
  /\ Resumed(i)

\* C9 as stated: every response that is not ok ends the attempt with the
\* network message and without the key dialog, whatever its status text.
C9_AsStated ==
  [][\A i \in Frames :
       NotOkResumes(i) =>
         /\ frame'[i].pc = "idle"
         /\ status' = showStatusError(NetworkMessage)]_vars

\* C9, amended: a response that is not ok and whose status text has no
\* pattern of the credential, safety-block, quota or timeout rules ends the
\* attempt with the network message and without the key dialog.
C9_NetworkUnlessEarlierRule ==
  [][\A i \in Frames :
       (NotOkResumes(i)
          /\ \A r \in 1..4 : ~Matches(r, toLowerCase(reply[i].statusText))) =>
         /\ frame'[i].pc = "idle"
         /\ status' = showStatusError(NetworkMessage)]_vars

\* a response that is not ok, with a status text that matches a later rule
C9_Witness ==
  \E i \in Frames :
    /\ frame[i].pc = "fetch"
    /\ reply[i] = FulfilledResponse(FALSE, "Internal Error")

\* C10 as stated: at the end of every attempt the status is the success
\* message and the video container is shown, or the status is an error
\* message and the video container is not shown.
C10_NoPartialResult ==
  [][\A i \in Frames :
       AttemptEnds(i) =>
         \/ /\ status' = "Video generated successfully."
            /\ videoContainerDisplay' = "block"
            /\ videoSrc' # ""
         \/ /\ IsErrorStatus(status')
            /\ videoContainerDisplay' = "none"]_vars

\* C11 as stated: video.src and downloadButton.href are written only in
\* the step that ends an attempt with the success message, so an attempt
\* that ends in failure leaves them as they were when it started.
C11_SlotWrittenOnSuccessOnly ==
  [][(videoSrc' # videoSrc \/ downloadHref' # downloadHref) =>
       \E i \in Frames :
         AttemptEnds(i) /\ status' = "Video generated successfully."]_vars

\* call i resumes from the key dialog of the catch block, which rejected
ErrorDialogRejects(i) ==
  /\ frame[i].pc = "errorDialog" /\ reply[i].kind = "rejected"
  /\ Resumed(i)

\* C12 as stated: when a credential error asks for the key dialog and the
\* dialog fails, the failure is written to the status, generate does not
\* reject, and the six controls are enabled again; the dialog fails when
\* the host capability is missing and when openSelectKey rejects.
C12_DialogFailureIsReported ==
  [][\A i \in Frames :
       /\ (Resumed(i) /\ CredentialFailure(i) /\ ~aistudio) =>
            /\ status' = NotAvailableStatus
            /\ ~unhandledRejection'
            /\ \A c \in Controls : ~disabled'[c]
       /\ ErrorDialogRejects(i) =>
            /\ IsErrorStatus(status') /\ status' # status
            /\ ~unhandledRejection'
            /\ \A c \in Controls : ~disabled'[c]]_vars

\* the settled value of call i is a done operation whose result list is
\* absent or empty
EmptyResultArrives(i) ==
  /\ DoneArrives(i)
  /\ \/ ~reply[i].operation.hasVideos
     \/ Len(reply[i].operation.generatedVideos) = 0

\* C13: a done operation whose result list is absent or empty ends the
\* attempt in the step that receives it: no asset fetch is made, the status
\* is the safety-block message, the key dialog is not asked for, the asset
\* slot is left alone and the controls are enabled again.
C13_EmptyResultIsSafetyBlock ==
  [][\A i \in Frames :
       (EmptyResultArrives(i) /\ Resumed(i)) =>
         /\ frame'[i].pc = "idle"
         /\ status' = showStatusError(SafetyMessage)
         /\ ~DialogRequested(i)
         /\ UNCHANGED <<videoSrc, downloadHref, videoContainerDisplay>>
         /\ \A c \in Controls : ~disabled'[c]]_vars

\* a poll answers done with an empty result list
C13_Witness ==
  \E i \in Frames :
    /\ frame[i].pc = "getVideosOperation"
    /\ reply[i] = FulfilledOperation(Operation(TRUE, TRUE, <<>>))

\* the values generateContent throws when call i resumes with the settled
\* value of its await (none when it goes on or returns)
Thrown(i) ==
  IF reply[i].kind = "rejected"
  THEN IF frame[i].pc = "getVideosOperation"
       THEN {Error("Failed to get video generation status. Please try again.")}
       ELSE {reply[i].e}
  ELSE IF reply[i].kind = "response"
  THEN IF reply[i].ok
       THEN {}
       ELSE {Error("Failed to fetch video file: " \o reply[i].statusText)}
  ELSE IF reply[i].kind = "operation"
  THEN IF EmptyResultArrives(i)
       THEN {Error("No videos were generated. The prompt may have been blocked.")}
       ELSE IF ~reply[i].operation.done /\ polls[i] = maxPolls
       THEN {Error("Video generation timed out. Please try again with a simpler prompt.")}
       ELSE {}
  ELSE {}

\* the messages the classification may give for the caught value e
MessagesFor(e) ==
  {RuleMessages[r] : r \in 1..7}
    \cup {UnexpectedMessage, FallbackMessage(e.message)}

\* C14: every value generateContent throws, an Error with any message or a
\* value that is no Error, is classified in the step that catches it: the
\* status shows exactly one of the messages of the classification (or,
\* after a credential error without the host dialog, the message of
\* openApiKeyDialog written over it), the call either asks for the key
\* dialog or returns, a value that is no Error gets the generic message and
\* no dialog, and generate does not reject in that step.
C14_ClassificationIsTotal ==
  [][\A i \in Frames :
       (frame[i].pc \in GenerateContentPcs /\ Resumed(i)) =>
         \A e \in Thrown(i) :
           /\ \/ Cardinality({m \in MessagesFor(e) :
                                status' = showStatusError(m)}) = 1
              \/ ~aistudio /\ status' = NotAvailableStatus
           /\ frame'[i].pc \in {"idle", "errorDialog"}
           /\ ~e.isError =>
                /\ status' = showStatusError(UnexpectedMessage)
                /\ frame'[i].pc = "idle"
           /\ ~unhandledRejection']_vars

\* the submission rejects with a value that is no Error
C14_Witness ==
  \E i \in Frames :
    /\ frame[i].pc = "generateVideos"
    /\ reply[i] = Rejected(NonError(""))

\* C15: whenever an attempt is in flight, from the step in which generate
\* disables the controls to the step in which the attempt ends (the key
\* dialog of the catch block included), all six controls are disabled.
C15_ControlsDisabledInFlight ==
  \A i \in Frames :
    frame[i].pc \in AttemptPcs => \A c \in Controls : disabled[c]

\* an attempt waits on the key dialog of the catch block while a file read
\* started before the attempt is still pending
C15_Witness ==
  \E i \in Frames :
    /\ frame[i].pc = "errorDialog"
    /\ reads # <<>>
    /\ \A c \in Controls : disabled[c]

\* call i resumes from the blob of the last result: generateContent returns
LastBlobResumes(i) ==
  /\ frame[i].pc = "blob" /\ reply[i].kind = "fulfilled"
  /\ frame[i].v = Len(frame[i].operation.generatedVideos)
  /\ Resumed(i)

KeyMissingStatus ==
  showStatusError("API key is not configured. Please add your API key.")

\* C17: while process.env.API_KEY is absent no call is inside
\* generateContent (no request, poll or asset fetch is made) and no step
\* writes a disabled flag; a click with a prompt calls openApiKeyDialog and
\* nothing else: with the host capability the call shows the key-missing
\* message and parks on window.aistudio.openSelectKey, without it the call
\* returns with the message of openApiKeyDialog.
C17_NoKeyNoAttempt ==
  [][~Truthy(apiKey) =>
       /\ \A i \in Frames : frame'[i].pc \in {"idle", "keyDialog"}
       /\ disabled' = disabled
       /\ \A c \in Controls : ~disabled[c]
       /\ UNCHANGED slot
       /\ (status' # status /\ Truthy(trim(prompt))) =>
            IF aistudio
            THEN /\ status' = KeyMissingStatus
                 /\ \E i \in Frames :
                      /\ frame[i].pc = "idle" /\ frame'[i].pc = "keyDialog"
                      /\ reply'[i] = Pending
            ELSE /\ status' = NotAvailableStatus
                 /\ frame' = frame]_vars

\* without a key, a click has opened the host dialog
C17_Witness ==
  /\ ~Truthy(apiKey)
  /\ status = KeyMissingStatus
  /\ \E i \in Frames : frame[i].pc = "keyDialog"

\* s is empty or holds white space only
IsBlank(s) == \A k \in 1..Len(s) : SubSeq(s, k, k) \in WhiteSpace

PromptMissingStatus ==
  showStatusError("Please enter a prompt to generate a video.")

\* C18: while the stored prompt is empty or white space only no call of
\* generate starts (no attempt and no key dialog), and a click, the only
\* step that then writes the status when no call is pending, writes the
\* enter-a-prompt message; the prompt of every request built is not blank.
C18_BlankPromptStartsNothing ==
  [][/\ IsBlank(prompt) =>
          /\ \A i \in Frames : frame[i].pc = "idle" => frame'[i].pc = "idle"
          /\ ((\A i \in Frames : frame[i].pc = "idle") /\ status' # status) =>
                status' = PromptMissingStatus
     /\ \A i \in Frames :
          frame'[i].pc \in GenerateContentPcs =>
            ~IsBlank(frame'[i].params.prompt)]_vars

\* a click with a prompt of white space has shown the message
C18_Witness ==
  /\ prompt = " \t"
  /\ status = PromptMissingStatus
  /\ \A i \in Frames : frame[i].pc = "idle"

\* C19 as stated: once no file read is pending, base64data holds the bytes
\* of the file selected last, and is empty when the last change event
\* cleared the selection.
C19_BytesOfLatestSelection ==
  reads = <<>> =>
    base64data = IF selectedFile = "" THEN "" ELSE SplitSecond(selectedFile)

\* the calls of generate parked on window.aistudio.openSelectKey
DialogsOutstanding ==
  {i \in Frames : frame[i].pc \in {"keyDialog", "errorDialog"}}

\* C20 as stated: at most one call of window.aistudio.openSelectKey is
\* outstanding at any time, whether generate opened it for a missing key
\* or for a credential error.
C20_OneDialogOutstanding == Cardinality(DialogsOutstanding) <= 1

====
